---- MODULE Spec2Model ----
(***************************************************************************)
(* A model of src/app.py: the rating-observation aggregation of            *)
(* create_candlestick_chart, the TTL result cache SimpleCache, and the     *)
(* orchestration fetch_and_process_games with its worker pool.             *)
(***************************************************************************)
EXTENDS Integers, Sequences, FiniteSets

VARIABLES
    observations,   \* game_data: the list extract_game_data returns (input order)
    bars,           \* ohlc_complete after the fill: one row per calendar day
    aggPc,          \* "input" before create_candlestick_chart ran, "done" after
    cache,          \* SimpleCache.cache: key -> [value, timestamp]
    clock,          \* time.time()
    lastCall,       \* the last completed SimpleCache call, with what it returned
    lastSet,        \* history: per key, the latest completed SimpleCache.set
    memo,           \* lru_cache of get_user_profile: is the username's profile in it
    newer,          \* lru_cache: the other usernames used after it (it is evicted at maxsize)
    lookup,         \* history: how this orchestration's get_user_profile call went
    hist,           \* history: the earlier lookups of the username, and of others since
    ipc,            \* where index is: "idle" between requests, "fetch" past line 304
    ikey,           \* index: cache_key
    atStart,        \* history: the cache, and the time, when the request reached line 294
    served,         \* history: what the last request rendered
    tpc,            \* per request thread: the line of index / SimpleCache it is at
    tkey,           \* per request thread: cache_key
    tentry,         \* per request thread: the (value, timestamp) read at line 32
    upstream,       \* what the chess.com API answers to each request
    opc,            \* where fetch_and_process_games is
    months,         \* the list get_user_archives returned
    task,           \* per month request: the state of its future in the pool
    taskResult,     \* per month request: the list its task returned
    nextResult,     \* the position of the fan-in loop in results
    all_games,      \* the merged records
    result,         \* what fetch_and_process_games returned: [fig, error]
    requests        \* the requests issued so far, per endpoint, and runs per task

aggVars == <<observations, bars, aggPc>>

cacheVars == <<cache, clock, lastCall, lastSet>>

threadVars == <<tpc, tkey, tentry>>

orchVars == <<upstream, opc, months, task, taskResult, nextResult, all_games,
              result, requests>>

memoVars == <<memo, newer, lookup, hist>>

indexVars == <<ipc, ikey, atStart, served>>

vars == <<aggVars, cacheVars, threadVars, orchVars, memoVars, indexVars>>

----------------------------------------------------------------------------
\* Bounds of the model.

\* Most observations in one input.
MaxObs == 3

\* Calendar days the timestamps are drawn from (days 0 .. NumDays-1).
NumDays == 4

\* Instants in one calendar day (the day boundary ts.date() cuts at).
DayLen == 2

\* Ratings the observations carry.
Ratings == {1, 2}

\* The NaN a left merge leaves in a day without a grouped row.
NaN == -1

\* cache = SimpleCache(timeout=300).
TIMEOUT == 300

\* @lru_cache(maxsize=128) of get_user_profile.
LruMaxSize == 128

\* The clock is read at multiples of TickStep, up to MaxClock.
TickStep == 100

MaxClock == 400

\* cache_key values and the chart_html values stored under them.
Keys == {"ann_blitz", "ann_rapid"}

Values == {"chartA", "chartB"}

\* Python's None.
None == "None"

\* fig is None: no chart. A chart is its bars, and has at least one.
NoFig == <<>>

\* The request threads of the server.
Threads == {"t1", "t2"}

\* MAX_WORKERS = 10.
MAX_WORKERS == 10

\* Most months an archive list names in an orchestration of any outcome.
MaxPeriods == 2

\* The most records of a list given to extract_game_data on its own.
MaxGames == 2

\* Months beyond MAX_WORKERS in an orchestration that fills the pool.
ExtraPeriods == 2

\* The arguments of fetch_and_process_games.
Username == "Ann"

TimeControl == "blitz"

----------------------------------------------------------------------------
\* Helpers on sequences and sets of integers.

SetMax(S) == CHOOSE x \in S : \A y \in S : y <= x

SetMin(S) == CHOOSE x \in S : \A y \in S : x <= y

\* All orders (bijections 1..Len -> 1..Len) of the rows of a sequence.
Orders(n) == {p \in [1..n -> 1..n] : \A i, j \in 1..n : i # j => p[i] # p[j]}

RowOrders(s) == {[i \in 1..Len(s) |-> s[p[i]]] : p \in Orders(Len(s))}

----------------------------------------------------------------------------
\* extract_game_data: the date and timestamp of an end_time.

\* ts.date() of ts = datetime.fromtimestamp(end_time).
DateOf(ts) == ts \div DayLen

\* One row of game_data.
Observation(endTime, rating) ==
    [date |-> DateOf(endTime), rating |-> rating, timestamp |-> endTime]

----------------------------------------------------------------------------
\* create_candlestick_chart.

\* A frame left in its input order (the sort skipped).
SortValuesSkipped(df) == {df}

\* The frame without its row i.
DropRow(df, i) == [k \in 1..(Len(df) - 1) |-> IF k < i THEN df[k] ELSE df[k + 1]]

\* df.sort_values('timestamp'): the default sort (quicksort) is not stable, so
\* rows with equal timestamps may come out in any order. Every ascending order
\* of the rows: a row of the least timestamp first, then the rest sorted.
RECURSIVE SortValues(_)
SortValues(df) ==
    IF df = <<>> THEN {<<>>}
    ELSE LET least == SetMin({df[i].timestamp : i \in 1..Len(df)})
             firsts == {i \in 1..Len(df) : df[i].timestamp = least}
         IN  UNION {{<<df[i]>> \o s : s \in SortValues(DropRow(df, i))} : i \in firsts}

\* The rows of one date, in the order of the sorted frame.
RowsOf(sorted, d) == SelectSeq(sorted, LAMBDA r : r.date = d)

\* An aggregation whose high is the first rating of the group, not the greatest.
GroupBarHighFirst(sorted, d) ==
    LET g == RowsOf(sorted, d)
        rs == {g[i].rating : i \in 1..Len(g)}
    IN  [date |-> d, open |-> g[1].rating, high |-> g[1].rating,
         low |-> SetMin(rs), close |-> g[Len(g)].rating]

\* groupby('date')['rating'].agg(first, max, min, last) of one group.
GroupBar(sorted, d) ==
    LET g == RowsOf(sorted, d)
        rs == {g[i].rating : i \in 1..Len(g)}
    IN  [date |-> d, open |-> g[1].rating, high |-> SetMax(rs),
         low |-> SetMin(rs), close |-> g[Len(g)].rating]

\* The dates that have a group.
GroupDates(sorted) == {sorted[i].date : i \in 1..Len(sorted)}

\* pd.date_range(start=min, end=max, freq='D'): every day, ends included.
DateRange(lo, hi) == [i \in 1..(hi - lo + 1) |-> lo + i - 1]

\* An inner merge: only the days that have a group.
MergeInner(allDates, sorted) ==
    LET kept == SelectSeq(allDates, LAMBDA d : d \in GroupDates(sorted))
    IN  [i \in 1..Len(kept) |-> GroupBar(sorted, kept[i])]

\* ohlc_complete.merge(ohlc_df, on='date', how='left'): a day without a
\* group keeps NaN in the four columns.
MergeLeft(allDates, sorted) ==
    [i \in 1..Len(allDates) |->
        IF allDates[i] \in GroupDates(sorted)
        THEN GroupBar(sorted, allDates[i])
        ELSE [date |-> allDates[i], open |-> NaN, high |-> NaN,
              low |-> NaN, close |-> NaN]]

\* ohlc_complete['close'].ffill(): the last non-NaN close at or before row i.
RECURSIVE CloseFfill(_, _)
CloseFfill(rows, i) ==
    IF rows[i].close # NaN THEN rows[i].close
    ELSE IF i = 1 THEN NaN
    ELSE CloseFfill(rows, i - 1)

\* The last non-NaN open at or before row i (a fill from the wrong column).
RECURSIVE OpenFfill(_, _)
OpenFfill(rows, i) ==
    IF rows[i].open # NaN THEN rows[i].open
    ELSE IF i = 1 THEN NaN
    ELSE OpenFfill(rows, i - 1)

\* The value written into the four columns of a row of mask_missing.
FillValue(rows, i) == CloseFfill(rows, i)

\* mask_missing = open.isna(); the four .loc assignments.
FillMissing(rows) ==
    [i \in 1..Len(rows) |->
        IF rows[i].open = NaN
        THEN [date |-> rows[i].date, open |-> FillValue(rows, i),
              high |-> FillValue(rows, i), low |-> FillValue(rows, i),
              close |-> FillValue(rows, i)]
        ELSE rows[i]]

\* The rows the chart is drawn from, given the sorted frame.
OhlcComplete(sorted) ==
    LET ds == GroupDates(sorted)
    IN  FillMissing(MergeLeft(DateRange(SetMin(ds), SetMax(ds)), sorted))

\* Every result create_candlestick_chart can produce for df (<<>> is None).
ChartRows(df) ==
    IF df = <<>> THEN {<<>>}
    ELSE {OhlcComplete(s) : s \in SortValues(df)}

----------------------------------------------------------------------------
\* The aggregation on its own: any non-empty game_data, then the chart.

\* The instants of days 1 .. NumDays (an end_time of 0 is never extracted).
ObservationValues ==
    {Observation(t, r) : t \in DayLen..((NumDays + 1) * DayLen - 1), r \in Ratings}

RECURSIVE SeqsUpTo(_, _)
SeqsUpTo(S, n) ==
    IF n = 0 THEN {<<>>}
    ELSE LET shorter == SeqsUpTo(S, n - 1)
         IN  shorter \cup {Append(s, x) : s \in {t \in shorter : Len(t) = n - 1}, x \in S}

----------------------------------------------------------------------------
\* The upstream API: what a request can be answered with.

\* str.lower() on the usernames of the model.
Lower(name) ==
    CASE name = "Ann" -> "ann"
      [] name = "ANN" -> "ann"
      [] OTHER -> name

\* The game records a month's body is made of.
GameA ==
    [time_class |-> "blitz", end_time |-> 2,
     white |-> [username |-> "ANN", rating |-> 1],
     black |-> [username |-> "bob", rating |-> 2]]

GameB ==
    [time_class |-> "blitz", end_time |-> 7,
     white |-> [username |-> "bob", rating |-> 1],
     black |-> [username |-> "ann", rating |-> 2]]

GameC ==
    [time_class |-> "rapid", end_time |-> 3,
     white |-> [username |-> "ann", rating |-> 2],
     black |-> [username |-> "bob", rating |-> 1]]

\* A record without end_time.
GameD ==
    [time_class |-> "blitz",
     white |-> [username |-> "ann", rating |-> 2],
     black |-> [username |-> "bob", rating |-> 1]]

\* The "games" lists of the well-formed bodies.
GameLists == {<<>>, <<GameA>>, <<GameC, GameB>>, <<GameD>>}

\* A profile answer: a status, or the transport raising RequestException.
ProfileResponses == {"200", "404", "500", "RequestException"}

\* An archive-list answer: a status with the number of archive URLs, parsable
\* as .../games/{year}/{month} or not; or the transport raising.
ArchiveResponses(n) ==
    {[status |-> "200", count |-> k, parsable |-> TRUE] : k \in 0..n}
    \cup {[status |-> "200", count |-> 1, parsable |-> FALSE],
          [status |-> "404", count |-> 0, parsable |-> TRUE],
          [status |-> "500", count |-> 0, parsable |-> TRUE],
          [status |-> "RequestException", count |-> 0, parsable |-> TRUE]}

\* A month answer: 200 with a body whose "games" is a list of records or is
\* null, another status, or the transport raising.
PeriodResponses ==
    {[status |-> "200", games_is_list |-> TRUE, games |-> g] : g \in GameLists}
    \cup {[status |-> "200", games_is_list |-> FALSE, games |-> <<>>],
          [status |-> "404", games_is_list |-> TRUE, games |-> <<>>],
          [status |-> "500", games_is_list |-> TRUE, games |-> <<>>],
          [status |-> "RequestException", games_is_list |-> TRUE, games |-> <<>>]}

----------------------------------------------------------------------------
\* The state of the parts a specification leaves alone.
NoResult == [fig |-> NoFig, error |-> None]

NoRequests == [profile |-> 0, archives |-> 0, month |-> <<>>]

OrchIdle ==
    /\ upstream = [profile |-> "200",
                   archives |-> [status |-> "200", count |-> 0, parsable |-> TRUE],
                   month |-> <<>>]
    /\ opc = "idle"
    /\ months = <<>>
    /\ task = <<>>
    /\ taskResult = <<>>
    /\ nextResult = 1
    /\ all_games = <<>>
    /\ result = NoResult
    /\ requests = NoRequests

AggIdle == observations = <<>> /\ bars = <<>> /\ aggPc = "input"

NoCall == [op |-> "none"]

EmptyCache == [k \in {} |-> None]

CacheIdle ==
    /\ cache = EmptyCache /\ clock = 0
    /\ lastCall = NoCall /\ lastSet = EmptyCache

NoHistory == [prev |-> "none", succeeded |-> FALSE, others |-> 0]

\* A new process: nothing memoized.
MemoIdle == memo = FALSE /\ newer = 0 /\ lookup = "none" /\ hist = NoHistory

NoServed == [kind |-> "none"]

NoRequestYet == [cache |-> EmptyCache, now |-> 0]

IndexIdle == ipc = "idle" /\ ikey = None /\ atStart = NoRequestYet /\ served = NoServed

ThreadsIdle ==
    /\ tpc = [t \in Threads |-> "idle"]
    /\ tkey = [t \in Threads |-> None]
    /\ tentry = [t \in Threads |-> None]

AggInit ==
    /\ observations \in (SeqsUpTo(ObservationValues, MaxObs) \ {<<>>})
    /\ bars = <<>>
    /\ aggPc = "input"
    /\ MemoIdle /\ IndexIdle
    /\ CacheIdle
    /\ ThreadsIdle
    /\ OrchIdle

CreateCandlestickChart ==
    /\ aggPc = "input"
    /\ \E rows \in ChartRows(observations) : bars' = rows
    /\ aggPc' = "done"
    /\ UNCHANGED <<observations, cacheVars, threadVars, orchVars>>
    /\ UNCHANGED <<memoVars, indexVars>>

AggNext == CreateCandlestickChart

SpecAgg == AggInit /\ [][AggNext]_vars

----------------------------------------------------------------------------
\* get_user_profile, get_user_archives, get_single_month_games.

\* A profile lookup that raises nothing, whatever the answer.
ProfileNeverRaises(resp) == None

\* The message of the ChessAPIError get_user_profile raises, None if it returns.
ProfileRaises(resp) ==
    CASE resp = "200" -> None
      [] resp = "404" -> "User not found"
      [] resp = "RequestException" -> "Network error: timed out"
      [] OTHER -> "API error: 500"

\* A memo that keeps whatever the call ended with.
MemoizedAlways(resp) == TRUE

\* lru_cache stores what the function returns: a call that raises stores
\* nothing.
Memoized(resp) == ProfileRaises(resp) = None

\* get_user_archives: the months it returns, or the exception of a URL that
\* does not parse (int() of a part); any failure of the request gives [].
ArchivesResult(resp) ==
    IF resp.status = "200"
    THEN IF resp.parsable
         THEN [raised |-> FALSE, months |-> [i \in 1..resp.count |-> i]]
         ELSE [raised |-> TRUE, months |-> <<>>]
    ELSE [raised |-> FALSE, months |-> <<>>]

\* [g for g in games if g.get("time_class") == time_class].
FilterTimeClass(games, timeClass) ==
    SelectSeq(games, LAMBDA g : g.time_class = timeClass)

\* A month request whose failure (any status but 200 and 404) is raised.
MonthResultRaisesOnFailure(resp, timeClass) ==
    IF resp.status = "200"
    THEN [raised |-> ~resp.games_is_list,
          games |-> IF resp.games_is_list
                    THEN SelectSeq(resp.games, LAMBDA g : g.time_class = timeClass)
                    ELSE <<>>]
    ELSE [raised |-> resp.status # "404", games |-> <<>>]

\* get_single_month_games: the list it returns, or the TypeError of iterating
\* a "games" that is not a list (only RequestException is caught).
MonthResult(resp, timeClass) ==
    IF resp.status = "200"
    THEN IF resp.games_is_list
         THEN [raised |-> FALSE, games |-> FilterTimeClass(resp.games, timeClass)]
         ELSE [raised |-> TRUE, games |-> <<>>]
    ELSE [raised |-> FALSE, games |-> <<>>]

----------------------------------------------------------------------------
\* extract_game_data.

\* if end_time: the record has an end_time and it is not 0.
HasEndTime(game) == "end_time" \in DOMAIN game /\ game.end_time # 0

\* game.get("white", {}).get("username", "").
WhiteUsername(game) ==
    IF "white" \in DOMAIN game /\ "username" \in DOMAIN game.white
    THEN game.white.username
    ELSE ""

\* The side of the record the queried player is taken to be.
PlayerData(game, username) ==
    IF Lower(WhiteUsername(game)) = Lower(username) THEN game.white ELSE game.black

\* player_data.get("rating", 0).
RatingOf(player) == IF "rating" \in DOMAIN player THEN player.rating ELSE 0

RECURSIVE ExtractGameData(_, _)
ExtractGameData(games, username) ==
    IF games = <<>> THEN <<>>
    ELSE LET game == games[1]
             rest == ExtractGameData(Tail(games), username)
         IN  IF HasEndTime(game)
             THEN <<Observation(game.end_time, RatingOf(PlayerData(game, username)))>> \o rest
             ELSE rest

\* extract_game_data on its own: any list of at most MaxGames records, each
\* with both sides, with or without an end_time, usernames and ratings.
Whites ==
    {[username |-> "ANN", rating |-> 1], [username |-> "bob", rating |-> 1],
     [username |-> "ANN"], [rating |-> 1]}

Blacks == {[username |-> "ann", rating |-> 2], [username |-> "bob"]}

EndTimes == {0, 2, 5}

WithEndTime(game, t) ==
    [f \in DOMAIN game \cup {"end_time"} |-> IF f = "end_time" THEN t ELSE game[f]]

GameRecords ==
    LET bare == {[time_class |-> TimeControl, white |-> w, black |-> b] :
                    w \in Whites, b \in Blacks}
    IN  bare \cup {WithEndTime(g, t) : g \in bare, t \in EndTimes}

ExtractInit ==
    /\ AggIdle /\ CacheIdle /\ ThreadsIdle /\ MemoIdle /\ IndexIdle
    /\ upstream = None
    /\ opc = "games"
    /\ months = <<>>
    /\ task = <<>>
    /\ taskResult = <<>>
    /\ nextResult = 1
    /\ all_games \in SeqsUpTo(GameRecords, MaxGames)
    /\ result = NoResult
    /\ requests = NoRequests

\* game_data = extract_game_data(all_games, username).
ExtractCall ==
    /\ opc = "games"
    /\ observations' = ExtractGameData(all_games, Username)
    /\ opc' = "data"
    /\ UNCHANGED <<bars, aggPc, cacheVars, threadVars>>
    /\ UNCHANGED <<upstream, months, task, taskResult, nextResult, all_games, result, requests>>
    /\ UNCHANGED <<memoVars, indexVars>>

ExtractNext == ExtractCall

SpecExtract == ExtractInit /\ [][ExtractNext]_vars

----------------------------------------------------------------------------
\* fetch_and_process_games.

\* A return that drops the error message.
ReturnedSilently(fig, error) ==
    /\ result' = [fig |-> fig, error |-> None]
    /\ opc' = "returned"

\* return fig, error (lines 243, 261, 269-278).
Returned(fig, error) ==
    /\ result' = [fig |-> fig, error |-> error]
    /\ opc' = "returned"

\* Line 237: user_profile = get_user_profile(username).
\* on a call that is in the lru_cache no request is made and the memoized
\* profile is returned; the entry becomes the most recently used.
GetUserProfile ==
    /\ opc = "start"
    /\ IF memo
       THEN /\ lookup' = "hit"
            /\ opc' = "archives"
            /\ UNCHANGED <<memo, requests, result>>
       ELSE /\ requests' = [requests EXCEPT !.profile = @ + 1]
            /\ memo' = Memoized(upstream.profile)
            /\ lookup' = IF ProfileRaises(upstream.profile) = None THEN "ok" ELSE "failed"
            /\ IF ProfileRaises(upstream.profile) = None
               THEN opc' = "archives" /\ UNCHANGED result
               ELSE Returned(NoFig, ProfileRaises(upstream.profile))
    /\ newer' = 0
    /\ hist' = [hist EXCEPT !.others = 0]
    /\ UNCHANGED <<upstream, months, task, taskResult, nextResult, all_games>>
    /\ UNCHANGED <<aggVars, cacheVars, threadVars>>
    /\ UNCHANGED indexVars

\* A test of the month list that never finds it empty.
NoMonthsNever(ms) == FALSE

\* Line 242: if not months.
NoMonths(ms) == ms = <<>>

\* Lines 240-248: months = get_user_archives(username); if not months: ...
GetUserArchives ==
    /\ opc = "archives"
    /\ requests' = [requests EXCEPT !.archives = @ + 1]
    /\ LET r == ArchivesResult(upstream.archives)
       IN  IF r.raised
           THEN Returned(NoFig, "An unexpected error occurred.") /\ UNCHANGED months
           ELSE IF NoMonths(r.months)
           THEN Returned(NoFig, "No games found for this user.") /\ UNCHANGED months
           ELSE /\ months' = r.months
                /\ opc' = "submit"
                /\ UNCHANGED result
    /\ UNCHANGED <<upstream, task, taskResult, nextResult, all_games>>
    /\ UNCHANGED <<aggVars, cacheVars, threadVars>>
    /\ UNCHANGED <<memoVars, indexVars>>

\* Lines 252-253: the pool is made and executor.map submits every request.
SubmitAll ==
    /\ opc = "submit"
    /\ task' = [i \in 1..Len(months) |-> "pending"]
    /\ taskResult' = [i \in 1..Len(months) |-> <<>>]
    /\ requests' = [requests EXCEPT !.month = [i \in 1..Len(months) |-> 0]]
    /\ nextResult' = 1
    /\ opc' = "fanin"
    /\ UNCHANGED <<upstream, months, all_games, result>>
    /\ UNCHANGED <<aggVars, cacheVars, threadVars>>
    /\ UNCHANGED <<memoVars, indexVars>>

\* The tasks a worker thread is running.
InFlight == {i \in 1..Len(task) : task[i] = "running"}

\* A worker thread is free: fewer than max_workers tasks are running.
WorkerFree == Cardinality(InFlight) < MAX_WORKERS

\* A free worker takes the oldest queued request and sends it (line 116).
StartTask(i) ==
    /\ opc \in {"fanin", "raising"}
    /\ i \in 1..Len(task)
    /\ task[i] = "pending"
    /\ \A j \in 1..(i - 1) : task[j] # "pending"
    /\ WorkerFree
    /\ task' = [task EXCEPT ![i] = "running"]
    /\ requests' = [requests EXCEPT !.month[i] = @ + 1]
    /\ UNCHANGED <<upstream, opc, months, taskResult, nextResult, all_games, result>>
    /\ UNCHANGED <<aggVars, cacheVars, threadVars>>
    /\ UNCHANGED <<memoVars, indexVars>>

\* get_single_month_games returns or raises; the future holds the outcome.
FinishTask(i) ==
    /\ opc \in {"fanin", "raising"}
    /\ i \in 1..Len(task)
    /\ task[i] = "running"
    /\ LET r == MonthResult(upstream.month[i], TimeControl)
       IN  /\ task' = [task EXCEPT ![i] = IF r.raised THEN "failed" ELSE "done"]
           /\ taskResult' = [taskResult EXCEPT ![i] = r.games]
    /\ UNCHANGED <<upstream, opc, months, nextResult, all_games, result, requests>>
    /\ UNCHANGED <<aggVars, cacheVars, threadVars>>
    /\ UNCHANGED <<memoVars, indexVars>>

\* Lines 254-255: the next result, in the order of the requests, is merged; a
\* result that is an exception is raised in the loop, and the iterator of
\* executor.map cancels every future that has not started.
FanIn ==
    /\ opc = "fanin"
    /\ nextResult <= Len(task)
    /\ task[nextResult] \in {"done", "failed"}
    /\ IF task[nextResult] = "done"
       THEN /\ all_games' = all_games \o taskResult[nextResult]
            /\ nextResult' = nextResult + 1
            /\ UNCHANGED <<task, opc>>
       ELSE /\ task' = [i \in 1..Len(task) |->
                         IF task[i] = "pending" THEN "cancelled" ELSE task[i]]
            /\ opc' = "raising"
            /\ UNCHANGED <<all_games, nextResult>>
    /\ UNCHANGED <<upstream, months, taskResult, result, requests>>
    /\ UNCHANGED <<aggVars, cacheVars, threadVars>>
    /\ UNCHANGED <<memoVars, indexVars>>

\* A loop that is taken to be over once the first result has been merged.
ResultsExhaustedEarly == nextResult > 1

\* Lines 254-255: the for loop over the results ends after the last of them.
ResultsExhausted == nextResult > Len(task)

\* Leaving the with block (shutdown(wait=True)) once no task is running or
\* queued: on to line 258, or the exception reaches line 276.
PoolExit ==
    /\ \/ opc = "fanin" /\ ResultsExhausted
       \/ opc = "raising"
    /\ \A i \in 1..Len(task) : task[i] \notin {"pending", "running"}
    /\ IF opc = "fanin"
       THEN opc' = "extract" /\ UNCHANGED result
       ELSE Returned(NoFig, "An unexpected error occurred.")
    /\ UNCHANGED <<upstream, months, task, taskResult, nextResult, all_games, requests>>
    /\ UNCHANGED <<aggVars, cacheVars, threadVars>>
    /\ UNCHANGED <<memoVars, indexVars>>

\* Lines 258-272: extract, then the chart of a non-empty game_data.
ProcessGames ==
    /\ opc = "extract"
    /\ LET game_data == ExtractGameData(all_games, Username)
       IN  IF game_data = <<>>
           THEN Returned(NoFig, "No blitz games found for Ann.")
           ELSE \E rows \in ChartRows(game_data) :
                    IF rows # NoFig
                    THEN Returned(rows, None)
                    ELSE Returned(NoFig, "Failed to create chart.")
    /\ UNCHANGED <<upstream, months, task, taskResult, nextResult, all_games, requests>>
    /\ UNCHANGED <<aggVars, cacheVars, threadVars>>
    /\ UNCHANGED <<memoVars, indexVars>>

\* Line 304: fetch_and_process_games is called once more, against upstream u.
BeginOrchestration(u) ==
    /\ upstream' = u
    /\ opc' = "start"
    /\ months' = <<>>
    /\ task' = <<>>
    /\ taskResult' = <<>>
    /\ nextResult' = 1
    /\ all_games' = <<>>
    /\ result' = NoResult
    /\ requests' = NoRequests
    /\ lookup' = "none"
    /\ hist' = [hist EXCEPT !.prev = IF lookup = "none" THEN @ ELSE lookup,
                            !.succeeded = @ \/ lookup \in {"ok", "hit"}]

\* An orchestration against any upstream, of at most MaxPeriods months.
OrchInit ==
    /\ AggIdle /\ CacheIdle /\ ThreadsIdle /\ MemoIdle /\ IndexIdle
    /\ upstream \in [profile : ProfileResponses,
                      archives : ArchiveResponses(MaxPeriods),
                      month : [1..MaxPeriods -> PeriodResponses]]
    /\ opc = "start"
    /\ months = <<>>
    /\ task = <<>>
    /\ taskResult = <<>>
    /\ nextResult = 1
    /\ all_games = <<>>
    /\ result = NoResult
    /\ requests = NoRequests

OrchNext ==
    \/ GetUserProfile
    \/ GetUserArchives
    \/ SubmitAll
    \/ \E i \in 1..Len(task) : StartTask(i)
    \/ \E i \in 1..Len(task) : FinishTask(i)
    \/ FanIn
    \/ PoolExit
    \/ ProcessGames

SpecOrch == OrchInit /\ [][OrchNext]_vars

\* The same orchestration when the main thread and the pool's workers keep
\* running: every request has a timeout (timeout=10, lines 74, 89, 115), so
\* each step that can be taken is taken.
SpecOrchFair == OrchInit /\ [][OrchNext]_vars /\ WF_vars(OrchNext)

\* An orchestration of more months than the pool has workers: every month
\* answers 200 with no games, but for at most one month (the first or the
\* last), whose "games" is null.
PoolPeriods == MAX_WORKERS + ExtraPeriods

PoolMonths(bad) ==
    [i \in 1..PoolPeriods |->
        IF i = bad
        THEN [status |-> "200", games_is_list |-> FALSE, games |-> <<>>]
        ELSE [status |-> "200", games_is_list |-> TRUE, games |-> <<>>]]

PoolInit ==
    /\ AggIdle /\ CacheIdle /\ ThreadsIdle /\ MemoIdle /\ IndexIdle
    /\ \E bad \in {0, 1, PoolPeriods} :
        upstream = [profile |-> "200",
                    archives |-> [status |-> "200", count |-> PoolPeriods,
                                  parsable |-> TRUE],
                    month |-> PoolMonths(bad)]
    /\ opc = "start"
    /\ months = <<>>
    /\ task = <<>>
    /\ taskResult = <<>>
    /\ nextResult = 1
    /\ all_games = <<>>
    /\ result = NoResult
    /\ requests = NoRequests

\* No queued request is waiting while a worker is free.
QueueServed == ~(WorkerFree /\ \E i \in 1..Len(task) : task[i] = "pending")

\* The pool with prompt workers: a free worker takes a queued request before
\* any running task ends and before the loop takes its next result.
PoolNext ==
    \/ GetUserProfile
    \/ GetUserArchives
    \/ SubmitAll
    \/ \E i \in 1..Len(task) : StartTask(i)
    \/ \E i \in 1..Len(task) : QueueServed /\ FinishTask(i)
    \/ QueueServed /\ FanIn
    \/ PoolExit
    \/ ProcessGames

SpecPool == PoolInit /\ [][PoolNext]_vars

----------------------------------------------------------------------------
\* The lru_cache of get_user_profile over the orchestrations of one process:
\* the username is looked up again and again, other usernames in between.

\* The upstream of these orchestrations: any answer to the profile request,
\* and an archive list with no period.
MemoUpstreams ==
    {[profile |-> p,
      archives |-> [status |-> "200", count |-> 0, parsable |-> TRUE],
      month |-> <<>>] : p \in ProfileResponses}

MemoStart(u) ==
    /\ opc \in {"idle", "returned"}
    /\ BeginOrchestration(u)
    /\ UNCHANGED <<memo, newer>>
    /\ UNCHANGED <<aggVars, cacheVars, threadVars, indexVars>>

\* get_user_profile(other), for a username not used since the last lookup of
\* the username: when it returns it is memoized as the most recently used, and
\* with maxsize entries in the cache the least recently used one is dropped.
OtherUserLookup(resp) ==
    /\ IF Memoized(resp)
       THEN /\ hist' = [hist EXCEPT !.others = IF @ < LruMaxSize THEN @ + 1 ELSE @]
            /\ IF memo
               THEN IF newer + 1 = LruMaxSize
                    THEN memo' = FALSE /\ newer' = 0
                    ELSE newer' = newer + 1 /\ UNCHANGED memo
               ELSE UNCHANGED <<memo, newer>>
       ELSE UNCHANGED <<memo, newer, hist>>
    /\ UNCHANGED lookup
    /\ UNCHANGED <<aggVars, cacheVars, threadVars, orchVars, indexVars>>

MemoInit == AggIdle /\ CacheIdle /\ ThreadsIdle /\ OrchIdle /\ MemoIdle /\ IndexIdle

MemoNext ==
    \/ \E u \in MemoUpstreams : MemoStart(u)
    \/ GetUserProfile
    \/ GetUserArchives
    \/ \E r \in ProfileResponses : OtherUserLookup(r)

SpecMemo == MemoInit /\ [][MemoNext]_vars

----------------------------------------------------------------------------
\* SimpleCache.

\* An expiry test that keeps an entry of age exactly timeout.
IsFreshInclusive(now, timestamp) == now - timestamp <= TIMEOUT

\* time.time() - timestamp < self.timeout.
IsFresh(now, timestamp) == now - timestamp < TIMEOUT

\* del self.cache[key].
Deleted(c, key) == [k \in (DOMAIN c) \ {key} |-> c[k]]

\* A set that keeps the timestamp of the entry it replaces.
StoredKeepingAge(c, key, value, now) ==
    [k \in (DOMAIN c) \cup {key} |->
        IF k = key
        THEN [value |-> value,
              timestamp |-> IF key \in DOMAIN c THEN c[key].timestamp ELSE now]
        ELSE c[k]]

\* The history of set calls: the latest set of each key, and in prior the one
\* it came after, if any.
Logged(log, key, value, now) ==
    [k \in (DOMAIN log) \cup {key} |->
        IF k = key
        THEN [value |-> value, timestamp |-> now,
              prior |-> IF key \in DOMAIN log
                        THEN <<[value |-> log[key].value, timestamp |-> log[key].timestamp]>>
                        ELSE <<>>]
        ELSE log[k]]

\* self.cache[key] = (value, time.time()).
Stored(c, key, value, now) ==
    [k \in (DOMAIN c) \cup {key} |->
        IF k = key THEN [value |-> value, timestamp |-> now] ELSE c[k]]

\* What get(key) returns at time now.
GetResult(c, key, now) ==
    IF key \in DOMAIN c /\ IsFresh(now, c[key].timestamp) THEN c[key].value ELSE None

\* The store after get(key) at time now.
GetStore(c, key, now) ==
    IF key \in DOMAIN c /\ ~IsFresh(now, c[key].timestamp) THEN Deleted(c, key) ELSE c

\* SimpleCache.get, run without interruption.
CacheGet(key) ==
    /\ cache' = GetStore(cache, key, clock)
    /\ lastCall' = [op |-> "get", key |-> key, ret |-> GetResult(cache, key, clock),
                    now |-> clock, before |-> cache]
    /\ UNCHANGED <<clock, lastSet, aggVars, threadVars, orchVars>>
    /\ UNCHANGED <<memoVars, indexVars>>

\* SimpleCache.set, run without interruption.
CacheSet(key, value) ==
    /\ cache' = Stored(cache, key, value, clock)
    /\ lastCall' = [op |-> "set", key |-> key, ret |-> None,
                    now |-> clock, before |-> cache]
    /\ lastSet' = Logged(lastSet, key, value, clock)
    /\ UNCHANGED <<clock, aggVars, threadVars, orchVars>>
    /\ UNCHANGED <<memoVars, indexVars>>

\* Time passes between calls (the clock never goes back).
Tick ==
    /\ clock + TickStep <= MaxClock
    /\ clock' = clock + TickStep
    /\ UNCHANGED <<cache, lastCall, lastSet, aggVars, threadVars, orchVars>>
    /\ UNCHANGED <<memoVars, indexVars>>

CacheInit == AggIdle /\ CacheIdle /\ ThreadsIdle /\ OrchIdle /\ MemoIdle /\ IndexIdle

CacheNext ==
    \/ \E k \in Keys : CacheGet(k)
    \/ \E k \in Keys, v \in Values : CacheSet(k, v)
    \/ Tick

SpecCache == CacheInit /\ [][CacheNext]_vars

----------------------------------------------------------------------------
\* index: request threads that share the cache, one line of SimpleCache.get
\* at a time (the class holds no lock, and the server runs a thread a request).

\* cache_key = f"{username}_{time_control}"; cached_result = cache.get(cache_key).
Request(t, key) ==
    /\ tpc[t] = "idle"
    /\ tpc' = [tpc EXCEPT ![t] = "L31"]
    /\ tkey' = [tkey EXCEPT ![t] = key]
    /\ UNCHANGED <<tentry, cacheVars, aggVars, orchVars>>
    /\ UNCHANGED <<memoVars, indexVars>>

\* Line 31: if key in self.cache; line 37 otherwise: return None.
GetContains(t) ==
    /\ tpc[t] = "L31"
    /\ tpc' = [tpc EXCEPT ![t] = IF tkey[t] \in DOMAIN cache THEN "L32" ELSE "miss"]
    /\ UNCHANGED <<tkey, tentry, cacheVars, aggVars, orchVars>>
    /\ UNCHANGED <<memoVars, indexVars>>

\* Line 32: value, timestamp = self.cache[key]; a KeyError when the key is gone.
GetRead(t) ==
    /\ tpc[t] = "L32"
    /\ IF tkey[t] \in DOMAIN cache
       THEN /\ tentry' = [tentry EXCEPT ![t] = cache[tkey[t]]]
            /\ tpc' = [tpc EXCEPT ![t] = "L33"]
       ELSE /\ tpc' = [tpc EXCEPT ![t] = "raised"]
            /\ UNCHANGED tentry
    /\ UNCHANGED <<tkey, cacheVars, aggVars, orchVars>>
    /\ UNCHANGED <<memoVars, indexVars>>

\* Lines 33-35: return value if the entry is fresh, else go on to delete it.
GetCompare(t) ==
    /\ tpc[t] = "L33"
    /\ tpc' = [tpc EXCEPT ![t] =
                IF IsFresh(clock, tentry[t].timestamp) THEN "hit" ELSE "L36"]
    /\ tentry' = [tentry EXCEPT ![t] =
                [value |-> tentry[t].value, timestamp |-> tentry[t].timestamp,
                 now |-> clock]]
    /\ UNCHANGED <<tkey, cacheVars, aggVars, orchVars>>
    /\ UNCHANGED <<memoVars, indexVars>>

\* Line 36: del self.cache[key]; a KeyError when the key is gone. Then line 37.
GetDelete(t) ==
    /\ tpc[t] = "L36"
    /\ IF tkey[t] \in DOMAIN cache
       THEN /\ cache' = Deleted(cache, tkey[t])
            /\ tpc' = [tpc EXCEPT ![t] = "miss"]
       ELSE /\ tpc' = [tpc EXCEPT ![t] = "raised"]
            /\ UNCHANGED cache
    /\ UNCHANGED <<tkey, tentry, clock, lastCall, lastSet, aggVars, orchVars>>
    /\ UNCHANGED <<memoVars, indexVars>>

\* Lines 296-301: a cache hit is rendered.
ServeHit(t) ==
    /\ tpc[t] = "hit"
    /\ tpc' = [tpc EXCEPT ![t] = "idle"]
    /\ tkey' = [tkey EXCEPT ![t] = None]
    /\ tentry' = [tentry EXCEPT ![t] = None]
    /\ UNCHANGED <<cacheVars, aggVars, orchVars>>
    /\ UNCHANGED <<memoVars, indexVars>>

\* Lines 304-307: fetch_and_process_games returned an error.
FetchFailed(t) ==
    /\ tpc[t] = "miss"
    /\ tpc' = [tpc EXCEPT ![t] = "idle"]
    /\ tkey' = [tkey EXCEPT ![t] = None]
    /\ tentry' = [tentry EXCEPT ![t] = None]
    /\ UNCHANGED <<cacheVars, aggVars, orchVars>>
    /\ UNCHANGED <<memoVars, indexVars>>

\* Lines 304-310: fetch_and_process_games returned a figure; chart_html is made.
FetchSucceeded(t, chart) ==
    /\ tpc[t] = "miss"
    /\ tpc' = [tpc EXCEPT ![t] = "L311"]
    /\ tentry' = [tentry EXCEPT ![t] = chart]
    /\ UNCHANGED <<tkey, cacheVars, aggVars, orchVars>>
    /\ UNCHANGED <<memoVars, indexVars>>

\* Line 311: cache.set(cache_key, chart_html), then the chart is rendered.
SetStore(t) ==
    /\ tpc[t] = "L311"
    /\ cache' = Stored(cache, tkey[t], tentry[t], clock)
    /\ tpc' = [tpc EXCEPT ![t] = "idle"]
    /\ tkey' = [tkey EXCEPT ![t] = None]
    /\ tentry' = [tentry EXCEPT ![t] = None]
    /\ UNCHANGED <<clock, lastCall, lastSet, aggVars, orchVars>>
    /\ UNCHANGED <<memoVars, indexVars>>

\* The exception leaves index: the request fails, the server goes on.
RequestCrashed(t) ==
    /\ tpc[t] = "raised"
    /\ tpc' = [tpc EXCEPT ![t] = "idle"]
    /\ tkey' = [tkey EXCEPT ![t] = None]
    /\ tentry' = [tentry EXCEPT ![t] = None]
    /\ UNCHANGED <<cacheVars, aggVars, orchVars>>
    /\ UNCHANGED <<memoVars, indexVars>>

\* Time passes while requests are served.
ThreadTick ==
    /\ clock + TickStep <= MaxClock
    /\ clock' = clock + TickStep
    /\ UNCHANGED <<cache, lastCall, lastSet, aggVars, threadVars, orchVars>>
    /\ UNCHANGED <<memoVars, indexVars>>

ThreadsInit == AggIdle /\ CacheIdle /\ ThreadsIdle /\ OrchIdle /\ MemoIdle /\ IndexIdle

ThreadsNext ==
    \/ \E t \in Threads, k \in Keys : Request(t, k)
    \/ \E t \in Threads : GetContains(t)
    \/ \E t \in Threads : GetRead(t)
    \/ \E t \in Threads : GetCompare(t)
    \/ \E t \in Threads : GetDelete(t)
    \/ \E t \in Threads : ServeHit(t)
    \/ \E t \in Threads : FetchFailed(t)
    \/ \E t \in Threads, v \in Values : FetchSucceeded(t, v)
    \/ \E t \in Threads : SetStore(t)
    \/ \E t \in Threads : RequestCrashed(t)
    \/ ThreadTick

SpecThreads == ThreadsInit /\ [][ThreadsNext]_vars

----------------------------------------------------------------------------
\* index: POST requests for one username and time control, one after another,
\* each against whatever the upstream answers at that time.

\* Line 293: cache_key = f"{username}_{time_control}".
CacheKey == "Ann_blitz"

\* Line 310: pio.to_html(fig, ...), the HTML of the figure.
ToHtml(fig) == [html |-> fig]

\* One month of archives, answered with a list the month request succeeds on.
OneMonth == [status |-> "200", count |-> 1, parsable |-> TRUE]

EveryMonth(r) == [i \in 1..MaxPeriods |-> r]

BlitzMonth == [status |-> "200", games_is_list |-> TRUE, games |-> <<GameA>>]

\* The upstream of a request: every answer to the profile request, to the
\* archive request and to the month request, the other two being successes.
IndexUpstreams ==
    {[profile |-> p, archives |-> OneMonth, month |-> EveryMonth(BlitzMonth)] :
        p \in ProfileResponses}
    \cup {[profile |-> "200", archives |-> a, month |-> EveryMonth(BlitzMonth)] :
        a \in ArchiveResponses(1)}
    \cup {[profile |-> "200", archives |-> OneMonth, month |-> EveryMonth(r)] :
        r \in PeriodResponses}

\* A store in which an error outcome is cached like a chart.
StoredOnError(c, key, error, now) ==
    [k \in (DOMAIN c) \cup {key} |->
        IF k = key THEN [value |-> error, timestamp |-> now] ELSE c[k]]

\* Lines 306-307: if error: return render_template(...), the cache left alone.
KeptOnError(c, key, error, now) == c

\* Lines 294-296: if cached_result, of what cache.get returned (a cached
\* chart_html is never empty).
IsHit(c, key, now) == key \in DOMAIN c /\ IsFresh(now, c[key].timestamp)

\* Lines 293-304: cache.get(cache_key); a hit is rendered (lines 296-301), a
\* miss calls fetch_and_process_games.
IndexRequest(u) ==
    /\ ipc = "idle"
    /\ ikey' = CacheKey
    /\ atStart' = [cache |-> cache, now |-> clock]
    /\ cache' = GetStore(cache, CacheKey, clock)
    /\ IF IsHit(cache, CacheKey, clock)
       THEN /\ served' = [kind |-> "hit", chart |-> GetResult(cache, CacheKey, clock)]
            /\ ipc' = "idle"
            /\ opc' = "idle"
            /\ requests' = NoRequests
            /\ result' = NoResult
            /\ UNCHANGED <<upstream, months, task, taskResult, nextResult, all_games>>
            /\ UNCHANGED <<lookup, hist>>
       ELSE /\ served' = NoServed
            /\ ipc' = "fetch"
            /\ BeginOrchestration(u)
    /\ UNCHANGED <<memo, newer, clock, lastCall, lastSet>>
    /\ UNCHANGED <<aggVars, threadVars>>

\* Lines 306-317: the error is rendered, or the chart is cached and rendered.
IndexRespond ==
    /\ ipc = "fetch"
    /\ opc = "returned"
    /\ ipc' = "idle"
    /\ IF result.error # None
       THEN /\ cache' = KeptOnError(cache, ikey, result.error, clock)
            /\ served' = [kind |-> "error", error |-> result.error]
       ELSE IF result.fig # NoFig
       THEN /\ cache' = Stored(cache, ikey, ToHtml(result.fig), clock)
            /\ served' = [kind |-> "chart", chart |-> ToHtml(result.fig)]
       ELSE /\ served' = [kind |-> "error", error |-> "Failed to create chart."]
            /\ UNCHANGED cache
    /\ UNCHANGED <<ikey, atStart, clock, lastCall, lastSet>>
    /\ UNCHANGED <<aggVars, threadVars, orchVars, memoVars>>

\* Time passes, between requests and while one is served.
IndexTick ==
    /\ clock + TickStep <= MaxClock
    /\ clock' = clock + TickStep
    /\ UNCHANGED <<cache, lastCall, lastSet, aggVars, threadVars, orchVars>>
    /\ UNCHANGED <<memoVars, indexVars>>

IndexInit == AggIdle /\ CacheIdle /\ ThreadsIdle /\ OrchIdle /\ MemoIdle /\ IndexIdle

IndexNext ==
    \/ \E u \in IndexUpstreams : IndexRequest(u)
    \/ GetUserProfile
    \/ GetUserArchives
    \/ SubmitAll
    \/ \E i \in 1..Len(task) : StartTask(i)
    \/ \E i \in 1..Len(task) : FinishTask(i)
    \/ FanIn
    \/ PoolExit
    \/ ProcessGames
    \/ IndexRespond
    \/ IndexTick

SpecIndex == IndexInit /\ [][IndexNext]_vars

----------------------------------------------------------------------------
\* Properties of the aggregation.

ObservedDates == {observations[i].date : i \in 1..Len(observations)}

ObsOn(d) == {i \in 1..Len(observations) : observations[i].date = d}

\* The ratings of the observations of day d that carry its earliest timestamp.
EarliestRatings(d) ==
    {observations[i].rating : i \in {k \in ObsOn(d) :
        \A m \in ObsOn(d) : observations[k].timestamp <= observations[m].timestamp}}

\* The ratings of the observations of day d that carry its latest timestamp.
LatestRatings(d) ==
    {observations[i].rating : i \in {k \in ObsOn(d) :
        \A m \in ObsOn(d) : observations[m].timestamp <= observations[k].timestamp}}

DayRatings(d) == {observations[i].rating : i \in ObsOn(d)}

\* The days without an observation strictly between two observed dates.
IsGapDay(d) ==
    /\ d \notin ObservedDates
    /\ \E lo, hi \in ObservedDates : lo < d /\ d < hi

\* The most recent day before d that has an observation.
PriorObserved(d) == SetMax({e \in ObservedDates : e < d})

\* C1: every day strictly between two observed dates that has no observation
\* has open = high = low = close = the close of the bar of the most recent
\* earlier observed day, which is the rating of a latest observation of that day.
C1_GapDaysCarryPriorClose ==
    aggPc = "done" =>
        \A i \in 1..Len(bars) :
            IsGapDay(bars[i].date) =>
                \E j \in 1..Len(bars) :
                    /\ bars[j].date = PriorObserved(bars[i].date)
                    /\ bars[j].close \in LatestRatings(bars[j].date)
                    /\ bars[i].open = bars[j].close
                    /\ bars[i].high = bars[j].close
                    /\ bars[i].low = bars[j].close
                    /\ bars[i].close = bars[j].close

\* A two-day gap after a day whose open, close and low differ from its close
\* or high, so that a fill from another column or from zero would show.
C1_Witness ==
    /\ aggPc = "done"
    /\ \E i \in 3..Len(bars) :
        /\ IsGapDay(bars[i].date)
        /\ IsGapDay(bars[i - 1].date)
        /\ bars[i - 2].open # bars[i - 2].close
        /\ bars[i].close = bars[i - 2].close

\* C3 (as stated): every permutation of the observations, ties in timestamp
\* included, aggregates to the same sequence of bars.
C3_PermutationInvariant ==
    aggPc = "done" =>
        \A p \in RowOrders(observations) : ChartRows(p) = {bars}

\* C6: the bars are exactly one per calendar day from the least to the
\* greatest observed date, in strictly ascending order, none missing or twice.
C6_OneBarPerDay ==
    aggPc = "done" =>
        LET lo == SetMin(ObservedDates)
            hi == SetMax(ObservedDates)
        IN  /\ Len(bars) = (hi - lo) + 1
            /\ \A i \in 1..Len(bars) : bars[i].date = lo + i - 1
            /\ \A i, j \in 1..Len(bars) : i < j => bars[i].date < bars[j].date

\* Fewer observed days than bars, and two observations on one day.
C6_Witness ==
    /\ aggPc = "done"
    /\ Len(bars) = NumDays
    /\ Cardinality(ObservedDates) = 2
    /\ Len(observations) = 3

AllOneDate == \A i, j \in 1..Len(observations) : observations[i].date = observations[j].date

\* C9: observations that share one calendar date give one bar whose open is
\* the rating of an observation of the earliest timestamp, whose close is the
\* rating of one of the latest timestamp, whose high is the greatest rating
\* and whose low the least.
C9_SingleDayBar ==
    (aggPc = "done" /\ AllOneDate) =>
        LET d == observations[1].date
        IN  /\ Len(bars) = 1
            /\ bars[1].date = d
            /\ bars[1].open \in EarliestRatings(d)
            /\ bars[1].close \in LatestRatings(d)
            /\ bars[1].high = SetMax(DayRatings(d))
            /\ bars[1].low = SetMin(DayRatings(d))

\* Three observations of one day, given latest first, whose bar rises.
C9_Witness ==
    /\ aggPc = "done"
    /\ AllOneDate
    /\ Len(observations) = 3
    /\ observations[1].timestamp > observations[3].timestamp
    /\ bars[1].open < bars[1].close

----------------------------------------------------------------------------
\* Properties of SimpleCache, its calls made one after another.

\* The last call was a get that found an entry of age timeout or more.
GotExpired ==
    /\ lastCall.op = "get"
    /\ lastCall.key \in DOMAIN lastCall.before
    /\ lastCall.now - lastCall.before[lastCall.key].timestamp >= TIMEOUT

\* C4: a get never returns the value of an entry of age TTL or more (the
\* boundary included): it returns None and removes that key's entry, and
\* leaves every other key's entry as it was.
C4_ExpiredEntryIsMissAndPurged ==
    /\ GotExpired =>
        /\ lastCall.ret = None
        /\ lastCall.key \notin DOMAIN cache
        /\ DOMAIN cache = (DOMAIN lastCall.before) \ {lastCall.key}
        /\ \A k \in DOMAIN cache : cache[k] = lastCall.before[k]
    /\ (lastCall.op = "get" /\ lastCall.ret # None) =>
        /\ lastCall.key \in DOMAIN lastCall.before
        /\ lastCall.ret = lastCall.before[lastCall.key].value
        /\ lastCall.now - lastCall.before[lastCall.key].timestamp < TIMEOUT

\* A get at age exactly TTL, with the other key's entry in the store.
C4_Witness ==
    /\ GotExpired
    /\ lastCall.now - lastCall.before[lastCall.key].timestamp = TIMEOUT
    /\ \E k \in DOMAIN cache : k # lastCall.key

----------------------------------------------------------------------------
\* Properties of SimpleCache under concurrent requests.

\* C5 (as stated): under every interleaving of the requests' get and set calls
\* no call raises, and a get that returns a value returns one that was stored
\* less than TTL before.
C5_ConcurrentCallsNeverRaise ==
    \A t \in Threads :
        /\ tpc[t] # "raised"
        /\ tpc[t] = "hit" =>
            /\ tentry[t].value \in Values
            /\ tentry[t].now - tentry[t].timestamp < TIMEOUT

----------------------------------------------------------------------------
\* Properties of fetch_and_process_games.

\* The archive-list request was sent and did not come back with status 200.
ArchiveRequestFailed ==
    /\ requests.archives > 0
    /\ upstream.archives.status # "200"

\* C2 (as stated): when the archive-list request fails (a status other than
\* 200, or the transport raising), the orchestration reports an error message
\* other than the 'No games found for this user.' of an empty archive list.
C2_ArchiveFailureHasOwnMessage ==
    (opc = "returned" /\ ArchiveRequestFailed) =>
        /\ result.fig = NoFig
        /\ result.error # None
        /\ result.error # "No games found for this user."

\* C7 (as stated): whatever each month request is answered with, its task
\* returns a list and the fan-in loop completes without an exception; when
\* every task fails, the merged collection is empty.
C7_MonthFailuresNeverSurface ==
    /\ \A i \in 1..Len(task) : task[i] # "failed"
    /\ opc # "raising"
    /\ (opc = "extract" /\ \A i \in 1..Len(task) : upstream.month[i].status # "200")
            => all_games = <<>>

\* C8 (as stated): at most MAX_WORKERS month requests are in flight at any
\* moment, no task runs twice, and when the orchestration has returned every
\* task has run exactly once.
C8_BoundedPoolRunsEveryTaskOnce ==
    /\ Cardinality(InFlight) <= MAX_WORKERS
    /\ \A i \in 1..Len(task) : requests.month[i] <= 1
    /\ opc = "returned" => \A i \in 1..Len(task) : requests.month[i] = 1

NoLaterRequest ==
    /\ requests.archives = 0
    /\ \A i \in 1..Len(requests.month) : requests.month[i] = 0
    /\ task = <<>>
    /\ opc \in {"start", "returned"}

\* C10 (as stated): a profile lookup answered 404 makes the orchestration
\* report 'User not found.', and no archive-list or month request is issued.
C10_NotFoundReportedWithFullStop ==
    upstream.profile = "404" =>
        /\ NoLaterRequest
        /\ opc = "returned" => result = [fig |-> NoFig, error |-> "User not found."]

\* C10 (amended): a profile lookup answered 404 makes the orchestration report
\* 'User not found' (the message of the exception, which ends in no full
\* stop), and no archive-list or month request is ever issued.
C10_NotFoundAbortsBeforeArchives ==
    upstream.profile = "404" =>
        /\ NoLaterRequest
        /\ opc = "returned" => result = [fig |-> NoFig, error |-> "User not found"]

\* The orchestration has returned after a profile lookup answered 404.
C10_Witness ==
    /\ upstream.profile = "404"
    /\ requests.profile = 1
    /\ opc = "returned"


\* C19: every bar of the chart has low <= open <= high and low <= close <= high,
\* and none of its four values is missing.
C19_BarsWellFormed ==
    aggPc = "done" =>
        \A i \in 1..Len(bars) :
            /\ bars[i].open # NaN /\ bars[i].high # NaN
            /\ bars[i].low # NaN /\ bars[i].close # NaN
            /\ bars[i].low <= bars[i].open /\ bars[i].open <= bars[i].high
            /\ bars[i].low <= bars[i].close /\ bars[i].close <= bars[i].high

\* A chart with a bar whose low is below its high and with a filled gap day.
C19_Witness ==
    /\ aggPc = "done"
    /\ \E i \in 1..Len(bars) : bars[i].low < bars[i].high /\ bars[i].close < bars[i].open
    /\ \E i \in 1..Len(bars) : IsGapDay(bars[i].date)

\* The profile is found and the archive list is answered with no period.
ZeroPeriods ==
    /\ upstream.profile = "200"
    /\ upstream.archives.status = "200"
    /\ upstream.archives.count = 0

\* C11: when the archive list has zero periods the orchestration returns the
\* error 'No games found for this user.' and never submits a task to the pool:
\* no task exists and no month request is issued.
C11_ZeroPeriodsSkipThePool ==
    ZeroPeriods =>
        /\ opc \in {"start", "archives", "returned"}
        /\ task = <<>>
        /\ requests.month = <<>>
        /\ opc = "returned" => result = [fig |-> NoFig, error |-> "No games found for this user."]

\* An orchestration that has returned on an empty archive list.
C11_Witness ==
    /\ ZeroPeriods
    /\ opc = "returned"
    /\ requests.archives = 1

\* Every month request of a pool that ran fails: neither 200 nor 404.
AllMonthsFail ==
    /\ Len(task) >= 1
    /\ \A i \in 1..Len(task) : upstream.month[i].status \notin {"200", "404"}

\* C12: when every month request fails with an answer that is neither a
\* success nor a 404, the merged list is empty, no observation is extracted
\* and the orchestration returns 'No blitz games found for Ann.' and no chart.
C12_AllMonthsFailGivesNoGames ==
    (AllMonthsFail /\ opc \in {"extract", "returned"}) =>
        /\ all_games = <<>>
        /\ ExtractGameData(all_games, Username) = <<>>
        /\ opc = "returned" =>
               result = [fig |-> NoFig, error |-> "No blitz games found for Ann."]

\* Two months, one answered 500 and one with a RequestException, and returned.
C12_Witness ==
    /\ AllMonthsFail
    /\ opc = "returned"
    /\ Len(task) = 2
    /\ {upstream.month[i].status : i \in 1..2} = {"500", "RequestException"}

\* C13: extraction starts only after every month task has completed and its
\* result has been merged: no task is queued, running or unmerged.
C13_ExtractAfterFullFanIn ==
    opc = "extract" =>
        /\ Len(task) = Len(months)
        /\ \A i \in 1..Len(task) : task[i] = "done" /\ requests.month[i] = 1
        /\ nextResult = Len(task) + 1

\* Extraction about to start on the merged results of two month tasks.
C13_Witness ==
    /\ opc = "extract"
    /\ Len(task) = 2
    /\ Len(all_games) >= 2


\* The mode-filtered records of periods 1..n, period after period.
RECURSIVE FilteredUpTo(_)
FilteredUpTo(n) ==
    IF n = 0 THEN <<>>
    ELSE FilteredUpTo(n - 1) \o MonthResult(upstream.month[n], TimeControl).games

\* How often x occurs in s.
Occurrences(s, x) == Cardinality({i \in 1..Len(s) : s[i] = x})

SameMultiset(s, t) ==
    \A x \in {s[i] : i \in 1..Len(s)} \cup {t[i] : i \in 1..Len(t)} :
        Occurrences(s, x) = Occurrences(t, x)

\* The with block of the pool has been left, on either way out.
PoolLeft == Len(task) >= 1 /\ opc \in {"extract", "returned"}

\* C14 (as stated): whatever the order in which the month tasks complete, once
\* the fan-in is over the merged records are exactly the union over all periods
\* of the period's mode-filtered records, none lost and none duplicated.
C14_MergedIsUnionOfAllPeriods ==
    PoolLeft => SameMultiset(all_games, FilteredUpTo(Len(task)))


\* What fetch_and_process_games may return: a chart and no error, or no chart
\* and a non-empty error message.
OneOutcome ==
    \/ result.fig # NoFig /\ result.error = None
    \/ result.fig = NoFig /\ result.error \notin {None, ""}

\* C16: whatever the profile, archive and month requests are answered with,
\* the orchestration terminates, and it returns exactly one of (chart, no
\* error) and (no chart, non-empty error message).
C16_AlwaysOneReportedOutcome ==
    /\ <>(opc = "returned")
    /\ [](opc = "returned" => OneOutcome)

\* The exception of a month task, caught and reported as the generic failure.
C16_Witness ==
    /\ opc = "returned"
    /\ \E i \in 1..Len(task) : task[i] = "failed"
    /\ result = [fig |-> NoFig, error |-> "An unexpected error occurred."]


\* The record has an end_time field.
HasEndTimeField(game) == "end_time" \in DOMAIN game

\* The rating the claim gives a record: white's when white.username is the
\* queried username ignoring case, else black's; 0 when that side has none.
ClaimedRating(game) ==
    LET side == IF "username" \in DOMAIN game.white
                   /\ Lower(game.white.username) = Lower(Username)
                THEN game.white ELSE game.black
    IN  IF "rating" \in DOMAIN side THEN side.rating ELSE 0

\* C17 (as stated): a record without end_time gives no observation, every
\* record with an end_time gives exactly one, with the rating of the queried
\* player's side, so there are as many observations as records with end_time.
C17_OneObservationPerEndTime ==
    opc = "data" =>
        LET timed == SelectSeq(all_games, HasEndTimeField)
        IN  /\ Len(observations) = Len(timed)
            /\ \A i \in 1..Len(timed) :
                   i <= Len(observations) =>
                       observations[i] = Observation(timed[i].end_time, ClaimedRating(timed[i]))


\* The last call was a get of a key set less than TIMEOUT ago.
GotWithinTtlOfSet ==
    /\ lastCall.op = "get"
    /\ lastCall.key \in DOMAIN lastSet
    /\ lastCall.now - lastSet[lastCall.key].timestamp < TIMEOUT

\* C15: a get of k less than TTL after the latest set(k, v) returns v, whatever
\* was stored under k before; and a set replaces the entry of its key by the
\* new value with the time of the call, the age starting again.
C15_CacheRoundTrip ==
    /\ GotWithinTtlOfSet => lastCall.ret = lastSet[lastCall.key].value
    /\ lastCall.op = "set" =>
           cache[lastCall.key] = [value |-> lastSet[lastCall.key].value,
                                  timestamp |-> lastCall.now]

\* A get that returns v2, set over another value whose own set is TTL or more
\* in the past.
C15_Witness ==
    /\ GotWithinTtlOfSet
    /\ lastCall.ret = lastSet[lastCall.key].value
    /\ lastSet[lastCall.key].prior # <<>>
    /\ lastSet[lastCall.key].prior[1].value # lastCall.ret
    /\ lastCall.now - lastSet[lastCall.key].prior[1].timestamp >= TIMEOUT
    /\ lastCall.now > lastSet[lastCall.key].timestamp


\* The step in which an orchestration's get_user_profile call is made.
LookupStep == lookup = "none" /\ lookup' # "none"

----------------------------------------------------------------------------
\* Properties of index.

\* The last request has been answered, with an error / from the cache.
EndedInError == ipc = "idle" /\ served.kind = "error"

ServedFromCache == ipc = "idle" /\ served.kind = "hit"

\* A request served from a hit issues no upstream request and leaves the
\* entry, its insertion time included, as it was.
HitIsFree ==
    ServedFromCache =>
        /\ requests = NoRequests
        /\ opc = "idle"
        /\ cache = atStart.cache
        /\ served.chart = atStart.cache[ikey].value

\* C18 (as stated): a request that ends in an error leaves the cache
\* unchanged; a request served from a hit issues no upstream request and does
\* not refresh the entry.
C18_ErrorLeavesCacheUnchanged ==
    /\ EndedInError => cache = atStart.cache
    /\ HitIsFree

\* C18: a request that ends in an error adds no entry and changes none: all
\* it can do to the cache is the purge, by its cache.get, of its own key's
\* entry of age TIMEOUT or more. A request served from a hit issues no
\* upstream request and does not refresh the entry. So every entry holds the
\* chart of an orchestration that returned no error.
C18_OnlyChartsAreCached ==
    /\ EndedInError =>
        /\ \A k \in DOMAIN cache :
               k \in DOMAIN atStart.cache /\ cache[k] = atStart.cache[k]
        /\ \A k \in (DOMAIN atStart.cache) \ (DOMAIN cache) :
               /\ k = ikey
               /\ atStart.now - atStart.cache[k].timestamp >= TIMEOUT
    /\ HitIsFree
    /\ (ipc = "idle" /\ served.kind = "chart") =>
           /\ result.error = None
           /\ served.chart = ToHtml(result.fig)
           /\ cache[ikey].value = served.chart
    /\ \A k \in DOMAIN cache : cache[k].value.html # NoFig

\* A request that found its key's entry expired, purged it, and ended in the
\* error of an unexpected failure.
C18_Witness ==
    /\ EndedInError
    /\ served.error = "An unexpected error occurred."
    /\ ikey \in DOMAIN atStart.cache
    /\ ikey \notin DOMAIN cache

====
